---- MODULE Spec2Model ----
(***************************************************************************)
(* The three CD key redemption drivers of the repository:                  *)
(*   "cdkey"                 src/cdkey.py                 (early return)   *)
(*   "cd_key_retrieval"      src/cd_key_retrieval.py      (early return)   *)
(*   "cdkey_info_retrieval"  src/cdkey_info_retrieval.py  (exhaustive)     *)
(* One behaviour is one call of main() of one of the three modules.  The   *)
(* remote endpoints are the environment: role_listing holds what the role  *)
(* listing endpoint answers for each region, the redemption endpoint       *)
(* answers with any retcode of RetCodes, and every requests.get may fail   *)
(* instead (network error, timeout, malformed JSON).                       *)
(***************************************************************************)
EXTENDS Integers, Sequences, FiniteSets, TLC

VARIABLES
    variant,          \* the module whose main is running
    role_listing,     \* response["data"] the role listing answers, per region
    pc,               \* "lookup", "roles", "redeem": position in main;
                      \* "done": main returned; "raised": an exception left main
    ri,               \* index in regions of the region of the for loop
    data,             \* response["data"] of the latest role lookup
    ai,               \* index of user_game_role in user_game_roles_data
                      \* (cdkey_info_retrieval.py)
    cd_key_statuses,  \* the result table of cdkey_info_retrieval.py
    ret,              \* the value main returned
    err,              \* the exception that left main
    calls             \* the remote calls issued so far, with their answers

vars == <<variant, role_listing, pc, ri, data, ai, cd_key_statuses, ret, err, calls>>

(* ---------------------------- bounds ----------------------------------- *)

\* total number of role records the role-listing endpoint returns in a run
MaxRecords == 2

\* account ids (game_uid) are drawn from 1..MaxUid
MaxUid == 2

(* ------------------------ program constants ---------------------------- *)

Variants == {"cdkey", "cd_key_retrieval", "cdkey_info_retrieval"}

EarlyReturnVariants == {"cdkey", "cd_key_retrieval"}

\* regions / target_regions, the fixed list iterated by main
regions == <<"os_usa", "os_euro", "os_asia", "os_cht">>

\* the game_biz query parameter of the role-listing request
ROLES_GAME_BIZ == "hk4e_global"

(* --------------------------- environment ------------------------------- *)

\* the game_biz an account belongs to: an account is bound to one title, so
\* its id determines the tag its role record carries
GameBizOf(uid) == IF uid % 2 = 1 THEN "hk4e_global" ELSE "hk4e_cn"

\* retcodes the redemption endpoint can answer with: the four the table
\* knows and some it does not
RetCodes == {0, -2001, -2003, -2017, -2002, 12345}

\* the elements response["data"]["list"] can have
RoleRecords == {[game_uid |-> uid, game_biz |-> GameBizOf(uid)] : uid \in 1..MaxUid}

SeqsUpTo(S, n) == UNION {[1..k -> S] : k \in 0..n}

\* response["data"] of the role-listing endpoint: null, or an object with a list
NullData == [kind |-> "null"]

ObjData(l) == [kind |-> "obj", list |-> l]

(* ------------------------- Python values ------------------------------- *)

None == [kind |-> "None"]

Str(s) == [kind |-> "str", val |-> s]

Dict(d) == [kind |-> "dict", val |-> d]

\* ret before main has returned
Unset == [kind |-> "unset"]

\* {}
EmptyDict == [k \in {} |-> 0]

\* d[k] = v
DictSet(d, k, v) == [x \in (DOMAIN d) \cup {k} |-> IF x = k THEN v ELSE d[x]]

\* d.get(k, default)
DictGet(d, k, default) == IF k \in DOMAIN d THEN d[k] ELSE default

\* Python truthiness of cd_key_statuses (None and {} are falsy)
Truthy(v) == v.kind = "dict" /\ DOMAIN v.val # {}

(* ------------------------ redemption check ----------------------------- *)

\* the literal dict of the return statement
STATUS_TABLE ==
    (0 :> "success") @@ (-2001 :> "expired") @@ (-2003 :> "invalid")
        @@ (-2017 :> "already in use")

\* cdkey.py
get_cdkey_info(retcode) == DictGet(STATUS_TABLE, retcode, "unknown")

\* cd_key_retrieval.py
get_cdkey_status_cd_key_retrieval(retcode) ==
    DictGet(STATUS_TABLE, retcode, "unknown")

\* the table with the label of -2003 taken from the line above it
get_cdkey_status_wrong_label(retcode) ==
    IF retcode = -2003 THEN "expired" ELSE DictGet(STATUS_TABLE, retcode, "unknown")

\* cdkey_info_retrieval.py
get_cdkey_status_cdkey_info_retrieval(retcode) ==
    DictGet(STATUS_TABLE, retcode, "unknown")

RedemptionCheck(v, retcode) ==
    CASE v = "cdkey" -> get_cdkey_info(retcode)
      [] v = "cd_key_retrieval" -> get_cdkey_status_cd_key_retrieval(retcode)
      [] v = "cdkey_info_retrieval" -> get_cdkey_status_cdkey_info_retrieval(retcode)

(* ---------------------------- call log --------------------------------- *)

RolesCall(region, ok, d) ==
    [op |-> "roles", region |-> region, game_biz |-> ROLES_GAME_BIZ,
     ok |-> ok, data |-> d]

RedeemCall(region, uid, biz, ok, retcode, status) ==
    [op |-> "redeem", region |-> region, uid |-> uid, game_biz |-> biz,
     ok |-> ok, retcode |-> retcode, status |-> status]

(* ----------------------- role listing endpoint ------------------------- *)

\* number of role records in one answer
RecordCount(d) == IF d.kind = "obj" THEN Len(d.list) ELSE 0

RECURSIVE TotalRecords(_)
TotalRecords(w) ==
    IF w = <<>> THEN 0
    ELSE RecordCount(w[Len(w)]) + TotalRecords(SubSeq(w, 1, Len(w) - 1))

\* answers with at most n role records
RoleData(n) == {NullData} \cup {ObjData(l) : l \in SeqsUpTo(RoleRecords, n)}

\* the answers for the first n regions, with at most MaxRecords records in all
RECURSIVE Listings(_)
Listings(n) ==
    IF n = 0 THEN {<<>>}
    ELSE UNION {{Append(w, d) : d \in RoleData(MaxRecords - TotalRecords(w))}
                  : w \in Listings(n - 1)}

(* ------------------------------ main ----------------------------------- *)

Init ==
    /\ variant \in Variants
    /\ role_listing \in Listings(Len(regions))
    /\ pc = "lookup"
    /\ ri = 1
    /\ data = NullData
    /\ ai = 1
    /\ cd_key_statuses = None
    /\ ret = Unset
    /\ err = "none"
    /\ calls = <<>>

\* value main returns when the for loop over the regions runs out
LoopExhausted(v, statuses) ==
    IF v = "cdkey_info_retrieval" THEN statuses ELSE None

\* the loop over the regions stopping one region short
NextRegionShort(statuses) ==
    IF ri < Len(regions) - 1
    THEN /\ ri' = ri + 1
         /\ pc' = "lookup"
         /\ ret' = ret
    ELSE /\ ri' = ri
         /\ pc' = "done"
         /\ ret' = LoopExhausted(variant, statuses)

\* next iteration of "for region in regions", or the end of main, which then
\* returns; statuses is the value of cd_key_statuses at that point
NextRegion(statuses) ==
    IF ri < Len(regions)
    THEN /\ ri' = ri + 1
         /\ pc' = "lookup"
         /\ ret' = ret
    ELSE /\ ri' = ri
         /\ pc' = "done"
         /\ ret' = LoopExhausted(variant, statuses)

\* a role lookup that swallows the failure and is tried again
LookupFailRetry ==
    /\ pc = "lookup"
    /\ calls' = Append(calls, RolesCall(regions[ri], FALSE, NullData))
    /\ UNCHANGED <<variant, role_listing, pc, ri, data, ai, cd_key_statuses, ret, err>>

\* requests.get(...).json() of the role listing raises
LookupFail ==
    /\ pc = "lookup"
    /\ calls' = Append(calls, RolesCall(regions[ri], FALSE, NullData))
    /\ pc' = "raised"
    /\ err' = "RequestError"
    /\ UNCHANGED <<variant, role_listing, ri, data, ai, cd_key_statuses, ret>>

\* requests.get(...).json() of the role listing answers; data is response["data"]
LookupOk ==
    /\ pc = "lookup"
    /\ calls' = Append(calls, RolesCall(regions[ri], TRUE, role_listing[ri]))
    /\ data' = role_listing[ri]
    /\ pc' = "roles"
    /\ UNCHANGED <<variant, role_listing, ri, ai, cd_key_statuses, ret, err>>

\* cdkey.py: user_game_roles_data = response["data"]["list"]; if ...:
RolesCdkey ==
    /\ pc = "roles"
    /\ variant = "cdkey"
    /\ IF data.kind = "null"
       THEN \* None["list"]
            /\ pc' = "raised"
            /\ err' = "TypeError"
            /\ UNCHANGED <<ri, ai, ret>>
       ELSE IF data.list # <<>>
            THEN /\ pc' = "redeem"
                 /\ UNCHANGED <<ri, ai, ret, err>>
            ELSE /\ NextRegion(cd_key_statuses)
                 /\ UNCHANGED <<ai, err>>
    /\ UNCHANGED <<variant, role_listing, data, cd_key_statuses, calls>>

\* cd_key_retrieval.py: data = response["data"]; if not data: continue; ...
RolesCdKeyRetrieval ==
    /\ pc = "roles"
    /\ variant = "cd_key_retrieval"
    /\ IF data.kind = "null"
       THEN /\ NextRegion(cd_key_statuses)
            /\ UNCHANGED ai
       ELSE IF data.list # <<>>
            THEN /\ pc' = "redeem"
                 /\ UNCHANGED <<ri, ai, ret>>
            ELSE /\ NextRegion(cd_key_statuses)
                 /\ UNCHANGED ai
    /\ UNCHANGED <<variant, role_listing, data, cd_key_statuses, calls, err>>

\* cdkey_info_retrieval.py: if not data: continue; for user_game_role in ...
RolesCdkeyInfoRetrieval ==
    /\ pc = "roles"
    /\ variant = "cdkey_info_retrieval"
    /\ IF data.kind = "null"
       THEN /\ NextRegion(cd_key_statuses)
            /\ UNCHANGED ai
       ELSE IF data.list # <<>>
            THEN /\ ai' = 1
                 /\ pc' = "redeem"
                 /\ UNCHANGED <<ri, ret>>
            ELSE /\ NextRegion(cd_key_statuses)
                 /\ UNCHANGED ai
    /\ UNCHANGED <<variant, role_listing, data, cd_key_statuses, calls, err>>

\* first_user_game_role = user_game_roles_data[0]
first_user_game_role(user_game_roles_data) == user_game_roles_data[1]

\* the role record the pending redemption check is called with
CurrentRole ==
    IF variant \in EarlyReturnVariants
    THEN first_user_game_role(data.list)
    ELSE data.list[ai]

\* the requests.get(...) / response.json() inside the redemption check raises
RedeemFail ==
    /\ pc = "redeem"
    /\ LET role == CurrentRole
       IN calls' = Append(calls, RedeemCall(regions[ri], role.game_uid,
                                            role.game_biz, FALSE, 0, ""))
    /\ pc' = "raised"
    /\ err' = "RequestError"
    /\ UNCHANGED <<variant, role_listing, ri, data, ai, cd_key_statuses, ret>>

\* cdkey.py, cd_key_retrieval.py: the check answers and main returns its status
RedeemReturn ==
    /\ pc = "redeem"
    /\ variant \in EarlyReturnVariants
    /\ \E retcode \in RetCodes :
          LET role == first_user_game_role(data.list)
              status == RedemptionCheck(variant, retcode)
          IN /\ calls' = Append(calls, RedeemCall(regions[ri], role.game_uid,
                                                  role.game_biz, TRUE, retcode, status))
             /\ ret' = Str(status)
    /\ pc' = "done"
    /\ UNCHANGED <<variant, role_listing, ri, data, ai, cd_key_statuses, err>>

\* the three statements that store cd_key_status in cd_key_statuses
RecordStatus(statuses, region, game_uid, status) ==
    LET s1 == IF ~Truthy(statuses) THEN EmptyDict ELSE statuses.val
        s2 == IF region \notin DOMAIN s1 THEN DictSet(s1, region, EmptyDict) ELSE s1
    IN Dict(DictSet(s2, region, DictSet(s2[region], game_uid, status)))

\* the loop over the roles left after its first record
RedeemRecordFirstOnly ==
    /\ pc = "redeem"
    /\ variant = "cdkey_info_retrieval"
    /\ \E retcode \in RetCodes :
          LET role == data.list[ai]
              status == RedemptionCheck(variant, retcode)
          IN /\ calls' = Append(calls, RedeemCall(regions[ri], role.game_uid,
                                                  role.game_biz, TRUE, retcode, status))
             /\ cd_key_statuses' =
                   RecordStatus(cd_key_statuses, regions[ri], role.game_uid, status)
    /\ ai' = ai
    /\ NextRegion(cd_key_statuses')
    /\ UNCHANGED <<variant, role_listing, data, err>>

\* cdkey_info_retrieval.py: the check answers, the status is recorded and the
\* loop over the roles goes on
RedeemRecord ==
    /\ pc = "redeem"
    /\ variant = "cdkey_info_retrieval"
    /\ \E retcode \in RetCodes :
          LET role == data.list[ai]
              status == RedemptionCheck(variant, retcode)
          IN /\ calls' = Append(calls, RedeemCall(regions[ri], role.game_uid,
                                                  role.game_biz, TRUE, retcode, status))
             /\ cd_key_statuses' =
                   RecordStatus(cd_key_statuses, regions[ri], role.game_uid, status)
    /\ IF ai < Len(data.list)
       THEN /\ ai' = ai + 1
            /\ UNCHANGED <<ri, pc, ret>>
       ELSE /\ ai' = ai
            /\ NextRegion(cd_key_statuses')
    /\ UNCHANGED <<variant, role_listing, data, err>>

Next ==
    \/ LookupFail
    \/ LookupOk
    \/ RolesCdkey
    \/ RolesCdKeyRetrieval
    \/ RolesCdkeyInfoRetrieval
    \/ RedeemFail
    \/ RedeemReturn
    \/ RedeemRecord

Spec == Init /\ [][Next]_vars

(* ----------------------- reading the call log -------------------------- *)

RolesIdx == {i \in DOMAIN calls : calls[i].op = "roles"}

RedeemIdx == {i \in DOMAIN calls : calls[i].op = "redeem"}

\* lookups that answered without accounts: data null, or an empty list
NoAccounts(c) ==
    c.op = "roles" /\ c.ok /\ (c.data.kind = "null" \/ c.data.list = <<>>)

\* lookups that answered with at least one account
SomeAccounts(c) ==
    c.op = "roles" /\ c.ok /\ c.data.kind = "obj" /\ c.data.list # <<>>

StatusLabels == {"success", "expired", "invalid", "already in use", "unknown"}

(* ------------------------------ C1 ------------------------------------- *)

\* C1: in all three variants an answered redemption check returns "success"
\* for retcode 0, "expired" for -2001, "invalid" for -2003, "already in use"
\* for -2017 and "unknown" for every other retcode, and the driver never
\* raises after an answered check, whatever its retcode.
C1_RetcodeLabels ==
    /\ \A i \in RedeemIdx :
          calls[i].ok =>
             /\ calls[i].retcode = 0 => calls[i].status = "success"
             /\ calls[i].retcode = -2001 => calls[i].status = "expired"
             /\ calls[i].retcode = -2003 => calls[i].status = "invalid"
             /\ calls[i].retcode = -2017 => calls[i].status = "already in use"
             /\ calls[i].retcode \notin {0, -2001, -2003, -2017}
                   => calls[i].status = "unknown"
    /\ (pc = "raised" /\ calls # <<>> /\ calls[Len(calls)].op = "redeem")
          => ~calls[Len(calls)].ok

\* an exhaustive run in which one check answered -2017 and a later one 12345
C1_Witness ==
    /\ variant = "cdkey_info_retrieval"
    /\ \E i, j \in RedeemIdx :
          /\ i < j
          /\ calls[i].ok /\ calls[i].retcode = -2017
          /\ calls[i].status = "already in use"
          /\ calls[j].ok /\ calls[j].retcode = 12345
          /\ calls[j].status = "unknown"

(* ------------------------------ C2 ------------------------------------- *)

\* C2: in every variant, when the role listing of a region answers with a
\* null data field the driver raises no error because of it and its next
\* remote call is the role lookup of the next region of the list.
C2_NullDataSkipped ==
    \A i \in RolesIdx :
       (calls[i].ok /\ calls[i].data.kind = "null") =>
          /\ ~(pc = "raised" /\ i = Len(calls))
          /\ i < Len(calls) =>
                /\ calls[i + 1].op = "roles"
                /\ \E k \in 1..(Len(regions) - 1) :
                      /\ calls[i].region = regions[k]
                      /\ calls[i + 1].region = regions[k + 1]

(* ------------------------------ C3 ------------------------------------- *)

\* C3: in every variant, for every region whose role lookup yields no
\* accounts (data null, or an empty list) no redemption request is issued
\* with that region and the driver does not raise on that answer.
C3_EmptyRegionNoRedeem ==
    \A i \in RolesIdx :
       NoAccounts(calls[i]) =>
          /\ \A j \in RedeemIdx : calls[j].region # calls[i].region
          /\ ~(pc = "raised" /\ i = Len(calls))

(* ------------------------------ C4 ------------------------------------- *)

\* redemption requests issued for the pair (region, uid)
RequestsFor(region, uid) ==
    {j \in RedeemIdx : calls[j].region = region /\ calls[j].uid = uid}

\* positions of the role list of lookup i that carry the account id uid
RecordsFor(i, uid) ==
    IF SomeAccounts(calls[i])
    THEN {k \in DOMAIN calls[i].data.list : calls[i].data.list[k].game_uid = uid}
    ELSE {}

\* C4 as stated: in a run that completes, every (region, account id) pair
\* returned by a role lookup gets exactly one redemption request, in every
\* variant and for any role lists.
C4_OncePerPair ==
    pc = "done" =>
       \A i \in RolesIdx : \A uid \in 1..MaxUid :
          RecordsFor(i, uid) # {} =>
             Cardinality(RequestsFor(calls[i].region, uid)) = 1

\* C4 as amended: in a run that completes, the exhaustive variant issues
\* exactly one redemption request per role record returned by the lookups (a
\* pair listed k times gets k requests, a pair not listed gets none); an
\* early-return variant issues one request in all, for the first record of
\* the first non-empty role list, and none when every list is empty.
C4_OncePerRecord ==
    pc = "done" =>
       IF variant = "cdkey_info_retrieval"
       THEN \A i \in RolesIdx : \A uid \in 1..MaxUid :
               Cardinality(RequestsFor(calls[i].region, uid))
                  = Cardinality(RecordsFor(i, uid))
       ELSE /\ Cardinality(RedeemIdx) <= 1
            /\ (RedeemIdx = {}) <=> (\A i \in RolesIdx : ~SomeAccounts(calls[i]))
            /\ \A j \in RedeemIdx :
                  /\ j > 1
                  /\ SomeAccounts(calls[j - 1])
                  /\ calls[j].region = calls[j - 1].region
                  /\ calls[j].uid = calls[j - 1].data.list[1].game_uid
                  /\ \A i \in 1..(j - 2) : ~SomeAccounts(calls[i])

\* a completed exhaustive run whose role list names the same account twice
\* and which made two requests for it
C4_Witness ==
    /\ variant = "cdkey_info_retrieval"
    /\ pc = "done"
    /\ \E i \in RolesIdx : \E uid \in 1..MaxUid :
          /\ Cardinality(RecordsFor(i, uid)) = 2
          /\ Cardinality(RequestsFor(calls[i].region, uid)) = 2

(* ------------------------------ C5 ------------------------------------- *)

\* the last redemption request issued for the pair (region, uid)
LastRequestFor(region, uid) ==
    CHOOSE j \in RequestsFor(region, uid) :
       \A k \in RequestsFor(region, uid) : k <= j

\* C5: a run of the exhaustive variant that completes returns a ResultTable
\* with an entry at [region][account id] for exactly the pairs returned by the
\* role lookups, and every entry is the label returned by the redemption
\* request made for that region and account in the run.
C5_ResultTable ==
    (variant = "cdkey_info_retrieval" /\ pc = "done") =>
       /\ ret.kind = "dict"
       /\ \A i \in RolesIdx : \A uid \in 1..MaxUid :
             (RecordsFor(i, uid) # {}) <=>
                /\ calls[i].region \in DOMAIN ret.val
                /\ uid \in DOMAIN ret.val[calls[i].region]
       /\ \A r \in DOMAIN ret.val :
             /\ \E i \in RolesIdx : calls[i].region = r
             /\ \A uid \in DOMAIN ret.val[r] :
                   /\ RequestsFor(r, uid) # {}
                   /\ ret.val[r][uid] = calls[LastRequestFor(r, uid)].status

(* ------------------------------ C6 ------------------------------------- *)

\* regions, by position in the list, for which the role listing has accounts
NonEmptyRegions ==
    {k \in DOMAIN role_listing :
        role_listing[k].kind = "obj" /\ role_listing[k].list # <<>>}

FirstNonEmptyRegion ==
    CHOOSE k \in NonEmptyRegions : \A m \in NonEmptyRegions : k <= m

\* C6: when some region has accounts, an early-return driver makes a single
\* redemption request, for the first account of the role list of the first
\* such region in the order os_usa, os_euro, os_asia, os_cht; no lookup or
\* request follows it; and, no remote call failing, the run ends with main
\* returning one result, the status of that request.
C6_FirstAccountOnly ==
    (variant \in EarlyReturnVariants /\ NonEmptyRegions # {}) =>
       LET first == role_listing[FirstNonEmptyRegion].list[1]
       IN /\ Cardinality(RedeemIdx) <= 1
          /\ \A j \in RedeemIdx :
                /\ j = Len(calls)
                /\ calls[j].region = regions[FirstNonEmptyRegion]
                /\ calls[j].uid = first.game_uid
                /\ calls[j].game_biz = first.game_biz
          /\ (pc \in {"done", "raised"} /\ \A i \in DOMAIN calls : calls[i].ok) =>
                /\ pc = "done"
                /\ RedeemIdx = {Len(calls)}
                /\ ret = Str(calls[Len(calls)].status)

(* ------------------------------ C7 ------------------------------------- *)

\* C7: in every variant a failed remote call is fatal: it is the last call
\* of the run (no retry, no further lookup or redemption request), the
\* driver ends in the propagated error and returns neither a status nor a
\* table.
C7_FailureIsFatal ==
    \A i \in DOMAIN calls :
       ~calls[i].ok =>
          /\ i = Len(calls)
          /\ pc = "raised"
          /\ err = "RequestError"
          /\ ret = Unset

\* an exhaustive run that recorded one status and then lost the second check
C7_Witness ==
    /\ variant = "cdkey_info_retrieval"
    /\ pc = "raised"
    /\ Truthy(cd_key_statuses)
    /\ ret = Unset
    /\ calls # <<>>
    /\ calls[Len(calls)].op = "redeem"
    /\ ~calls[Len(calls)].ok

(* ------------------------------ C8 ------------------------------------- *)

\* C8: whenever main of an early-return variant returns, it returns one of
\* the strings "success", "expired", "invalid", "already in use", "unknown".
C8_ReturnsStatusString ==
    (variant \in EarlyReturnVariants /\ pc = "done") =>
       /\ ret.kind = "str"
       /\ ret.val \in StatusLabels

(* ------------------------------ C9 ------------------------------------- *)

\* C9: whenever main of the exhaustive variant returns, it returns a nested
\* dictionary region -> account id -> status in which every region key
\* present maps to a non-empty inner dictionary.
C9_ReturnsNestedDict ==
    (variant = "cdkey_info_retrieval" /\ pc = "done") =>
       /\ ret.kind = "dict"
       /\ \A r \in DOMAIN ret.val :
             /\ DOMAIN ret.val[r] # {}
             /\ \A u \in DOMAIN ret.val[r] : ret.val[r][u] \in StatusLabels

(* ------------------------------ C10 ------------------------------------ *)

\* the role lookup that precedes call j
LookupBefore(j) ==
    CHOOSE i \in RolesIdx : i < j /\ \A k \in RolesIdx : k < j => k <= i

\* at most one lookup per region, in the order of the list; every redemption
\* request follows the lookup of its region, before the next lookup, and the
\* n-th request after a lookup carries that region and the account id and
\* game_biz of the n-th record of the list the lookup returned
SequentialOrder ==
    /\ Cardinality(RolesIdx) <= Len(regions)
    /\ \A i \in RolesIdx :
          calls[i].region = regions[Cardinality({k \in RolesIdx : k <= i})]
    /\ \A j \in RedeemIdx :
          /\ \E i \in RolesIdx : i < j
          /\ LET i == LookupBefore(j)
             IN /\ SomeAccounts(calls[i])
                /\ j - i \in DOMAIN calls[i].data.list
                /\ calls[j].region = calls[i].region
                /\ calls[j].uid = calls[i].data.list[j - i].game_uid
                /\ calls[j].game_biz = calls[i].data.list[j - i].game_biz

\* C10 as stated: every run is sequential in the fixed region order, and
\* every run of the exhaustive variant that has ended has issued exactly four
\* role lookups.
C10_FourLookupsEveryRun ==
    /\ SequentialOrder
    /\ (variant = "cdkey_info_retrieval" /\ pc \in {"done", "raised"})
          => Cardinality(RolesIdx) = Len(regions)

\* C10 as amended: every run is sequential in the fixed region order, and
\* every run of the exhaustive variant in which no remote call fails issues
\* exactly four role lookups and then returns.
C10_Sequential ==
    /\ SequentialOrder
    /\ (variant = "cdkey_info_retrieval" /\ pc = "done")
          => Cardinality(RolesIdx) = Len(regions)

\* a completed exhaustive run with two requests for the two different records
\* of one region
C10_Witness ==
    /\ variant = "cdkey_info_retrieval"
    /\ pc = "done"
    /\ Cardinality(RolesIdx) = 4
    /\ \E j \in RedeemIdx :
          /\ j + 1 \in RedeemIdx
          /\ calls[j].region = calls[j + 1].region
          /\ <<calls[j].uid, calls[j].game_biz>>
                # <<calls[j + 1].uid, calls[j + 1].game_biz>>

====
